---------------------------- MODULE Spec2Model ----------------------------
(***************************************************************************)
(* State-machine model of the in-memory capsule service: the three global  *)
(* collections CONTRIBUTORS, CAPSULES, ITEMS, the merge log MERGE_RECORDS  *)
(* and the request handlers of contributors.rs, capsules.rs, items.rs and  *)
(* merges.rs.                                                              *)
(*                                                                         *)
(* Spec      every handler is one atomic step.  Each handler takes all its *)
(*           mutex guards before it reads or writes a collection and drops *)
(*           them when it returns, so completed handlers are serialisable. *)
(* LockSpec  the handlers' lock acquisitions, one lock() call per step,    *)
(*           for callers running in parallel.                              *)
(*                                                                         *)
(* Vectors are 1-based sequences here; the source's 0-based index i is     *)
(* position i + 1.                                                         *)
(***************************************************************************)
EXTENDS Integers, Sequences, FiniteSets, TLC

VARIABLES CONTRIBUTORS, CAPSULES, ITEMS, MERGE_RECORDS, poisoned, now, last, steps, pc

vars == <<CONTRIBUTORS, CAPSULES, ITEMS, MERGE_RECORDS, poisoned, now, last, steps, pc>>

data == <<CONTRIBUTORS, CAPSULES, ITEMS, MERGE_RECORDS>>

----------------------------------------------------------------------------
(* Bounds of the model.                                                    *)

MaxContributors == 2

MaxCapsuleId == 3

MaxItemId == 2

MaxVersion == 2

MaxTime == 2

MaxMerges == 1

MaxCallers == 2

(* Requests that change something, and clock ticks, in one behaviour.       *)
MaxSteps == 5

(* Pagination parameters of the list requests: page in 1..MaxPage,         *)
(* per_page in 0..MaxPerPage.                                              *)
MaxPage == 3

MaxPerPage == 2

(* chrono::Duration::weeks(1), in clock ticks of one week.                 *)
Week == 1

Names == {"n1"}

NewNames == {"n2"}

Descriptions == {"d1"}

Emails == {"a@x.com", "b@x.com"}

OpenTimes == {MaxTime + 1}

Callers == 1..MaxCallers

ContributorIds == 1..MaxContributors

CapsuleIds == 1..MaxCapsuleId

ItemIds == 1..MaxItemId

Versions == 1..MaxVersion

----------------------------------------------------------------------------
(* Option<T>.                                                              *)

None == [some |-> FALSE, v |-> <<>>]

Some(x) == [some |-> TRUE, v |-> <<x>>]

IsSome(o) == o.some

Unwrap(o) == o.v[1]

(* Option::or                                                              *)
OrOpt(a, b) == IF IsSome(a) THEN a ELSE b

OptionOf(S) == {None} \cup {Some(x) : x \in S}

----------------------------------------------------------------------------
(* Vec<T> helpers.                                                         *)

Range(s) == {s[i] : i \in 1..Len(s)}

Contains(s, x) == \E i \in 1..Len(s) : s[i] = x

(* iter().position(|c| c.id == id): the first position, 0 for None.        *)
PositionId(s, id) ==
    IF \E i \in 1..Len(s) : s[i].id = id
    THEN CHOOSE i \in 1..Len(s) : s[i].id = id /\ \A j \in 1..(i - 1) : s[j].id # id
    ELSE 0

(* iter().position(|&x| x == v) on a Vec<u32>.                             *)
PositionOf(s, v) ==
    IF \E i \in 1..Len(s) : s[i] = v
    THEN CHOOSE i \in 1..Len(s) : s[i] = v /\ \A j \in 1..(i - 1) : s[j] # v
    ELSE 0

(* Vec::remove(index)                                                      *)
RemoveAt(s, i) == SubSeq(s, 1, i - 1) \o SubSeq(s, i + 1, Len(s))

(* iter().max_by_key(|c| c.id).map_or(1, |max| max.id + 1)                 *)
NextId(s) ==
    IF Len(s) = 0 THEN 1
    ELSE (CHOOSE m \in {s[i].id : i \in 1..Len(s)} :
              \A i \in 1..Len(s) : s[i].id <= m) + 1

----------------------------------------------------------------------------
(* Responses.  A handler returns Ok(..) or an Err with an HTTP status and  *)
(* a message; a panic unwinds the handler.                                 *)

Ok == [status |-> "Ok", msg |-> ""]

NoContent == [status |-> "NoContent", msg |-> ""]

Panic == [status |-> "Panic", msg |-> ""]

InternalServerError == [status |-> "InternalServerError", msg |-> ""]

EmailInUse == [status |-> "Conflict", msg |-> "Email already in use"]

ContributorNotFound == [status |-> "BadRequest", msg |-> "Contributor not found"]

ContributorNotFound404 == [status |-> "NotFound", msg |-> "Contributor not found"]

CapsuleNotFound == [status |-> "NotFound", msg |-> "Capsule not found"]

ItemNotFound == [status |-> "NotFound", msg |-> "Item not found in capsule"]

ModificationWindowClosed ==
    [status |-> "BadRequest", msg |-> "The modification period for this capsule has expired"]

VersionConflictRequest ==
    [status |-> "BadRequest", msg |-> "Conflicting versions provided"]

StaleVersion == [status |-> "Conflict", msg |-> "Version mismatch"]

VersionRequired == [status |-> "BadRequest", msg |-> "Version number is required"]

NoOpUpdate == [status |-> "BadRequest", msg |-> "No valid fields provided for update"]

MergeNotFound == [status |-> "BadRequest", msg |-> "One or both capsules not found"]

DifferentOwners == [status |-> "Forbidden", msg |-> "Capsules have different contributors"]

MergeNotAllowed ==
    [status |-> "Forbidden", msg |-> "Capsule modification not allowed at this time"]

(* The rejection of a repeated creation request; the check that returns   *)
(* it is commented out, so no handler produces it.                         *)
DuplicateSubmission == [status |-> "BadRequest", msg |-> "Duplicate item submission detected"]

----------------------------------------------------------------------------
(* The outcome of a handler: its response, the value it returns, the       *)
(* collections as it leaves them and the mutexes it leaves poisoned.       *)

Outcome(res, ret, ctr, cap, itm, mrg, psn) ==
    [res |-> res, ret |-> ret, contributors |-> ctr, capsules |-> cap,
     items |-> itm, merge_records |-> mrg, poisoned |-> psn]

(* An Err(..) return before any mutation.                                  *)
Fail(res) == Outcome(res, <<>>, CONTRIBUTORS, CAPSULES, ITEMS, MERGE_RECORDS, poisoned)

(* A panic while the guards of `held` are alive: unwinding drops them and  *)
(* poisons their mutexes; the collections stay as the handler left them.   *)
PanicWith(held, ctr, cap, itm, mrg) ==
    Outcome(Panic, <<>>, ctr, cap, itm, mrg, poisoned \cup Range(held))

(* X.lock().unwrap() for each lock of `order` in turn: the position of the *)
(* first poisoned mutex (the unwrap panics there), 0 when all are clean.   *)
FirstPoisoned(order) ==
    IF \E i \in 1..Len(order) : order[i] \in poisoned
    THEN CHOOSE i \in 1..Len(order) :
             order[i] \in poisoned /\ \A j \in 1..(i - 1) : order[j] \notin poisoned
    ELSE 0

(* The handler body `body` behind its lock().unwrap() calls.               *)
Locked(order, body) ==
    IF FirstPoisoned(order) = 0 THEN body
    ELSE PanicWith(SubSeq(order, 1, FirstPoisoned(order) - 1),
                   CONTRIBUTORS, CAPSULES, ITEMS, MERGE_RECORDS)

(* The handler body behind lock().map_err(|_| Status::InternalServerError)? *)
LockedOrError(order, body) ==
    IF FirstPoisoned(order) = 0 THEN body ELSE Fail(InternalServerError)

----------------------------------------------------------------------------
(* Lock acquisition order of each handler: its lock() calls, in order.     *)

Locks_create_contributor == <<"CONTRIBUTORS">>

Locks_update_contributor == <<"CONTRIBUTORS">>

Locks_delete_contributor == <<"CONTRIBUTORS", "CAPSULES", "ITEMS">>

Locks_create_and_update_capsule == <<"CONTRIBUTORS", "CAPSULES">>

Locks_update_capsule == <<"CAPSULES">>

Locks_patch_capsule == <<"CAPSULES">>

Locks_delete_capsule == <<"CAPSULES", "ITEMS", "CONTRIBUTORS">>

Locks_add_item_to_capsule == <<"ITEMS", "CAPSULES">>

Locks_patch_capsule_item_description == <<"ITEMS", "CAPSULES">>

Locks_delete_capsule_item == <<"ITEMS", "CAPSULES">>

Locks_merge_capsules == <<"CAPSULES", "ITEMS", "CONTRIBUTORS">>

Locks_list_capsules == <<"CAPSULES">>

Locks_capsule_detail == <<"CAPSULES">>

Locks_list_contributors == <<"CONTRIBUTORS">>

Locks_get_contributor_with_capsules == <<"CONTRIBUTORS", "CAPSULES">>

Locks_get_all_items == <<"ITEMS">>

Locks_get_item == <<"ITEMS">>

Locks_get_capsule_items == <<"CAPSULES", "ITEMS">>

Locks_get_capsule_item == <<"CAPSULES", "ITEMS">>

Locks_get_merge_records == <<"MERGE_RECORDS">>

----------------------------------------------------------------------------
(* contributors.rs                                                         *)

create_contributor(new) ==
    Locked(Locks_create_contributor,
      IF \E i \in 1..Len(CONTRIBUTORS) : CONTRIBUTORS[i].email = new.email
      THEN Fail(EmailInUse)
      ELSE LET contributor == [id |-> Len(CONTRIBUTORS) + 1,
                               capsule_ids |-> None,
                               name |-> new.name,
                               email |-> new.email]
           IN Outcome(Ok, <<contributor>>, Append(CONTRIBUTORS, contributor),
                      CAPSULES, ITEMS, MERGE_RECORDS, poisoned))

update_contributor(id, upd) ==
    Locked(Locks_update_contributor,
      IF /\ IsSome(upd.email)
         /\ \E i \in 1..Len(CONTRIBUTORS) :
                CONTRIBUTORS[i].id # id /\ CONTRIBUTORS[i].email = Unwrap(upd.email)
      THEN Fail(EmailInUse)
      ELSE LET pos == PositionId(CONTRIBUTORS, id) IN
           IF pos = 0 THEN Fail(ContributorNotFound404)
           ELSE LET c == CONTRIBUTORS[pos]
                    c1 == IF IsSome(upd.name) THEN [c EXCEPT !.name = Unwrap(upd.name)] ELSE c
                    c2 == IF IsSome(upd.email) THEN [c1 EXCEPT !.email = Unwrap(upd.email)] ELSE c1
                IN Outcome(Ok, <<c2>>, [CONTRIBUTORS EXCEPT ![pos] = c2],
                           CAPSULES, ITEMS, MERGE_RECORDS, poisoned))

delete_contributor(contributor_id) ==
    Locked(Locks_delete_contributor,
      LET pos == PositionId(CONTRIBUTORS, contributor_id) IN
      IF pos = 0 THEN Fail(ContributorNotFound404)
      ELSE LET capsule_ids_to_remove ==
                   {CAPSULES[i].id : i \in {j \in 1..Len(CAPSULES) :
                                              CAPSULES[j].contributor_id = contributor_id}}
               KeepCapsule(capsule) == capsule.contributor_id # contributor_id
               KeepItem(item) == item.id_capsule \notin capsule_ids_to_remove
           IN Outcome(NoContent, <<>>, RemoveAt(CONTRIBUTORS, pos),
                      SelectSeq(CAPSULES, KeepCapsule), SelectSeq(ITEMS, KeepItem),
                      MERGE_RECORDS, poisoned))

----------------------------------------------------------------------------
(* capsules.rs                                                             *)

(* A faulty push that lists the new id twice.                              *)
PushCapsuleId_Twice(contributor, id) ==
    IF IsSome(contributor.capsule_ids)
    THEN [contributor EXCEPT !.capsule_ids = Some(Unwrap(contributor.capsule_ids) \o <<id, id>>)]
    ELSE [contributor EXCEPT !.capsule_ids = Some(<<id, id>>)]

(* The contributor's capsule_ids with `id` pushed (created when None).     *)
PushCapsuleId(contributor, id) ==
    IF IsSome(contributor.capsule_ids)
    THEN [contributor EXCEPT !.capsule_ids = Some(Append(Unwrap(contributor.capsule_ids), id))]
    ELSE [contributor EXCEPT !.capsule_ids = Some(<<id>>)]

create_and_update_capsule(new) ==
    Locked(Locks_create_and_update_capsule,
      IF ~ \E i \in 1..Len(CONTRIBUTORS) : CONTRIBUTORS[i].id = new.contributor_id
      THEN Fail(ContributorNotFound)
      ELSE LET capsule == [id |-> NextId(CAPSULES),
                           contributor_id |-> new.contributor_id,
                           name |-> new.name,
                           description |-> new.description,
                           time_created |-> now,
                           time_changed |-> Some(now),
                           time_open |-> new.time_open,
                           time_until_changed |-> now + Week,
                           item_ids |-> None,
                           version |-> 1]
               pos == PositionId(CONTRIBUTORS, new.contributor_id)
           IN Outcome(Ok, <<capsule>>,
                      [CONTRIBUTORS EXCEPT ![pos] = PushCapsuleId(CONTRIBUTORS[pos], capsule.id)],
                      Append(CAPSULES, capsule), ITEMS, MERGE_RECORDS, poisoned))

update_capsule(cid, capsule_data) ==
    Locked(Locks_update_capsule,
      LET pos == PositionId(CAPSULES, cid) IN
      IF pos = 0 THEN Fail(CapsuleNotFound)
      ELSE IF now > CAPSULES[pos].time_until_changed THEN Fail(ModificationWindowClosed)
      ELSE LET capsule == [capsule_data EXCEPT !.time_changed = Some(now)]
           IN Outcome(Ok, <<capsule>>, CONTRIBUTORS, [CAPSULES EXCEPT ![pos] = capsule],
                      ITEMS, MERGE_RECORDS, poisoned))

(* A faulty guard that compares the stored version before it looks for a   *)
(* disagreement between etag and body version.                             *)
CapsuleVersionCheck_StaleFirst(capsule, etag, body_version) ==
    LET version_to_check == OrOpt(etag, body_version) IN
    IF ~ IsSome(version_to_check) THEN VersionRequired
    ELSE IF capsule.version # Unwrap(version_to_check) THEN StaleVersion
    ELSE IF IsSome(etag) /\ IsSome(body_version) /\ Unwrap(etag) # Unwrap(body_version)
         THEN VersionConflictRequest
    ELSE Ok

(* The version precondition of patch_capsule: the response it fails with,  *)
(* Ok when the update may proceed.                                         *)
CapsuleVersionCheck(capsule, etag, body_version) ==
    IF IsSome(etag) /\ IsSome(body_version) /\ Unwrap(etag) # Unwrap(body_version)
    THEN VersionConflictRequest
    ELSE LET version_to_check == OrOpt(etag, body_version) IN
         IF IsSome(version_to_check)
         THEN IF capsule.version # Unwrap(version_to_check) THEN StaleVersion ELSE Ok
         ELSE VersionRequired

(* A faulty patch that applies the fields and the timestamp but leaves the *)
(* version as it was.                                                      *)
PatchedCapsule_NoBump(capsule, patch, time_now) ==
    LET c1 == IF IsSome(patch.name) THEN [capsule EXCEPT !.name = Unwrap(patch.name)]
              ELSE capsule
        c2 == IF IsSome(patch.description)
              THEN [c1 EXCEPT !.description = Unwrap(patch.description)] ELSE c1
    IN [c2 EXCEPT !.time_changed = Some(time_now)]

(* The capsule after the fields present in the patch are applied.          *)
PatchedCapsule(capsule, patch, time_now) ==
    LET c1 == IF IsSome(patch.name) THEN [capsule EXCEPT !.name = Unwrap(patch.name)]
              ELSE capsule
        c2 == IF IsSome(patch.description)
              THEN [c1 EXCEPT !.description = Unwrap(patch.description)] ELSE c1
    IN [c2 EXCEPT !.time_changed = Some(time_now), !.version = capsule.version + 1]

patch_capsule(cid, etag, patch) ==
    Locked(Locks_patch_capsule,
      LET pos == PositionId(CAPSULES, cid) IN
      IF pos = 0 THEN Fail(CapsuleNotFound)
      ELSE IF now > CAPSULES[pos].time_until_changed THEN Fail(ModificationWindowClosed)
      ELSE IF CapsuleVersionCheck(CAPSULES[pos], etag, patch.version) # Ok
           THEN Fail(CapsuleVersionCheck(CAPSULES[pos], etag, patch.version))
      ELSE IF IsSome(patch.name) \/ IsSome(patch.description)
           THEN LET capsule == PatchedCapsule(CAPSULES[pos], patch, now)
                IN Outcome(Ok, <<capsule>>, CONTRIBUTORS, [CAPSULES EXCEPT ![pos] = capsule],
                           ITEMS, MERGE_RECORDS, poisoned)
           ELSE Fail(NoOpUpdate))

(* capsule_ids with the first occurrence of cid removed.                   *)
RemoveCapsuleId(contributor, cid) ==
    IF IsSome(contributor.capsule_ids) /\ PositionOf(Unwrap(contributor.capsule_ids), cid) # 0
    THEN [contributor EXCEPT !.capsule_ids =
              Some(RemoveAt(Unwrap(contributor.capsule_ids),
                            PositionOf(Unwrap(contributor.capsule_ids), cid)))]
    ELSE contributor

delete_capsule(cid) ==
    Locked(Locks_delete_capsule,
      LET index == PositionId(CAPSULES, cid) IN
      IF index = 0 THEN Fail(CapsuleNotFound)
      ELSE LET contributor_id == CAPSULES[index].contributor_id
               item_ids_to_remove == IF IsSome(CAPSULES[index].item_ids)
                                     THEN Unwrap(CAPSULES[index].item_ids) ELSE <<>>
               KeepItem(item) == ~ Contains(item_ids_to_remove, item.id)
               pos == PositionId(CONTRIBUTORS, contributor_id)
           IN Outcome(NoContent, <<>>,
                      IF pos = 0 THEN CONTRIBUTORS
                      ELSE [CONTRIBUTORS EXCEPT ![pos] = RemoveCapsuleId(CONTRIBUTORS[pos], cid)],
                      RemoveAt(CAPSULES, index), SelectSeq(ITEMS, KeepItem),
                      MERGE_RECORDS, poisoned))

----------------------------------------------------------------------------
(* items.rs                                                                *)

(* capsule.item_ids.get_or_insert_with(Vec::new).push(new_id)              *)
PushItemId(capsule, new_id) ==
    IF IsSome(capsule.item_ids)
    THEN [capsule EXCEPT !.item_ids = Some(Append(Unwrap(capsule.item_ids), new_id))]
    ELSE [capsule EXCEPT !.item_ids = Some(<<new_id>>)]

add_item_to_capsule(cid, item_data) ==
    Locked(Locks_add_item_to_capsule,
      LET pos == PositionId(CAPSULES, cid) IN
      IF pos = 0 THEN Fail(CapsuleNotFound)
      ELSE IF now > CAPSULES[pos].time_until_changed THEN Fail(ModificationWindowClosed)
      ELSE LET new_item == [id |-> NextId(ITEMS),
                            id_capsule |-> cid,
                            type_c |-> item_data.type_c,
                            description |-> item_data.description,
                            size |-> item_data.size,
                            path |-> item_data.path,
                            metadata |-> item_data.metadata,
                            time_added |-> now,
                            version |-> 1]
               capsule == [PushItemId(CAPSULES[pos], new_item.id)
                               EXCEPT !.time_changed = Some(now)]
           IN Outcome(Ok, <<new_item>>, CONTRIBUTORS, [CAPSULES EXCEPT ![pos] = capsule],
                      Append(ITEMS, new_item), MERGE_RECORDS, poisoned))

(* c.item_ids.as_ref().map_or(false, |ids| ids.contains(&item_id))         *)
ListsItem(capsule, item_id) ==
    IsSome(capsule.item_ids) /\ Contains(Unwrap(capsule.item_ids), item_id)

(* find(|c| c.id == capsule_id && c lists item_id): first position or 0.   *)
PositionHolding(capsule_id, item_id) ==
    IF \E i \in 1..Len(CAPSULES) :
           CAPSULES[i].id = capsule_id /\ ListsItem(CAPSULES[i], item_id)
    THEN CHOOSE i \in 1..Len(CAPSULES) :
             /\ CAPSULES[i].id = capsule_id /\ ListsItem(CAPSULES[i], item_id)
             /\ \A j \in 1..(i - 1) :
                    ~ (CAPSULES[j].id = capsule_id /\ ListsItem(CAPSULES[j], item_id))
    ELSE 0

(* The version precondition of patch_capsule_item_description.             *)
ItemVersionCheck(item, etag, body_version) ==
    LET version_to_check == OrOpt(etag, body_version) IN
    IF ~ IsSome(version_to_check) \/ version_to_check # Some(item.version)
    THEN StaleVersion ELSE Ok

patch_capsule_item_description(capsule_id, item_id, etag, item_update) ==
    Locked(Locks_patch_capsule_item_description,
      LET pos == PositionHolding(capsule_id, item_id)
          ipos == PositionId(ITEMS, item_id)
      IN
      IF pos = 0 THEN Fail(ItemNotFound)
      ELSE IF now > CAPSULES[pos].time_until_changed THEN Fail(ModificationWindowClosed)
      ELSE IF ipos = 0 THEN Fail(ItemNotFound)
      ELSE IF ItemVersionCheck(ITEMS[ipos], etag, item_update.version) # Ok
           THEN Fail(ItemVersionCheck(ITEMS[ipos], etag, item_update.version))
      ELSE LET item == [ITEMS[ipos] EXCEPT !.description = item_update.description,
                                           !.version = ITEMS[ipos].version + 1]
           IN Outcome(Ok, <<item>>, CONTRIBUTORS,
                      [CAPSULES EXCEPT ![pos].time_changed = Some(now)],
                      [ITEMS EXCEPT ![ipos] = item], MERGE_RECORDS, poisoned))

delete_capsule_item(capsule_id, item_id) ==
    Locked(Locks_delete_capsule_item,
      LET pos == PositionId(CAPSULES, capsule_id)
          KeepItem(item) == item.id # item_id
      IN
      IF pos = 0 THEN Fail(ItemNotFound)
      ELSE IF now > CAPSULES[pos].time_until_changed THEN Fail(ModificationWindowClosed)
      ELSE IF ~ IsSome(CAPSULES[pos].item_ids)
           THEN \* capsule.item_ids.as_mut().unwrap() on None
                PanicWith(Locks_delete_capsule_item, CONTRIBUTORS, CAPSULES, ITEMS, MERGE_RECORDS)
      ELSE IF PositionOf(Unwrap(CAPSULES[pos].item_ids), item_id) = 0 THEN Fail(ItemNotFound)
      ELSE LET ids == Unwrap(CAPSULES[pos].item_ids)
               capsule == [CAPSULES[pos] EXCEPT
                              !.item_ids = Some(RemoveAt(ids, PositionOf(ids, item_id))),
                              !.time_changed = Some(now)]
           IN Outcome(NoContent, <<>>, CONTRIBUTORS, [CAPSULES EXCEPT ![pos] = capsule],
                      SelectSeq(ITEMS, KeepItem), MERGE_RECORDS, poisoned))

----------------------------------------------------------------------------
(* merges.rs                                                               *)

(* impl From<Capsule> for CapsuleDetails; time_changed is expect()ed.      *)
CapsuleDetails(capsule) ==
    [id |-> capsule.id,
     contributor_id |-> capsule.contributor_id,
     time_created |-> capsule.time_created,
     time_changed |-> Unwrap(capsule.time_changed),
     description |-> capsule.description,
     name |-> capsule.name,
     item_ids |-> capsule.item_ids]

(* The loop of lines 83-87: for each id taken from capsule 2, the first    *)
(* item with that id gets id_capsule = new_cid.                            *)
Reparent(items, ids, new_cid) ==
    [i \in 1..Len(items) |->
        IF Contains(ids, items[i].id) /\ PositionId(items, items[i].id) = i
        THEN [items[i] EXCEPT !.id_capsule = new_cid]
        ELSE items[i]]

(* capsule 1's item_ids extended with the ids taken from capsule 2.        *)
ExtendItemIds(capsule, ids) ==
    IF IsSome(capsule.item_ids)
    THEN [capsule EXCEPT !.item_ids = Some(Unwrap(capsule.item_ids) \o ids)]
    ELSE [capsule EXCEPT !.item_ids = Some(ids)]

(* capsule_ids.retain(|&id| id != cid)                                     *)
RetainCapsuleIds(contributor, cid) ==
    LET Keep(id) == id # cid IN
    IF IsSome(contributor.capsule_ids)
    THEN [contributor EXCEPT !.capsule_ids = Some(SelectSeq(Unwrap(contributor.capsule_ids), Keep))]
    ELSE contributor

(* format!("Updated by merging with Capsule {}", id)                       *)
MergeDescription(id) == "Updated by merging with Capsule " \o ToString(id)

(* A faulty owner test that lets every pair of capsules through.           *)
SameContributor_Any(capsule1, capsule2) == TRUE

(* capsules[idx1].contributor_id == capsules[idx2].contributor_id          *)
SameContributor(capsule1, capsule2) ==
    capsule1.contributor_id = capsule2.contributor_id

merge_capsules(capsule_id1, capsule_id2) ==
    Locked(Locks_merge_capsules,
      LET idx1 == PositionId(CAPSULES, capsule_id1)
          idx2 == PositionId(CAPSULES, capsule_id2)
      IN
      IF idx1 = 0 \/ idx2 = 0 THEN Fail(MergeNotFound)
      ELSE IF ~ SameContributor(CAPSULES[idx1], CAPSULES[idx2])
           THEN Fail(DifferentOwners)
      ELSE IF ~ IsSome(CAPSULES[idx1].time_changed) \/ ~ IsSome(CAPSULES[idx2].time_changed)
           THEN \* time_changed.unwrap() on None
                PanicWith(Locks_merge_capsules, CONTRIBUTORS, CAPSULES, ITEMS, MERGE_RECORDS)
      ELSE IF Unwrap(CAPSULES[idx1].time_changed) > now \/ Unwrap(CAPSULES[idx2].time_changed) > now
           THEN Fail(MergeNotAllowed)
      ELSE
        LET old_capsule1 == CapsuleDetails(CAPSULES[idx1])
            old_capsule2 == CapsuleDetails(CAPSULES[idx2])
            item_ids_from_capsule2 == IF IsSome(CAPSULES[idx2].item_ids)
                                      THEN Unwrap(CAPSULES[idx2].item_ids) ELSE <<>>
            \* capsules[idx2].item_ids.take()
            taken == [CAPSULES EXCEPT ![idx2].item_ids = None]
            items1 == Reparent(ITEMS, item_ids_from_capsule2, taken[idx1].id)
            extended == [taken EXCEPT ![idx1] = ExtendItemIds(taken[idx1], item_ids_from_capsule2)]
            cpos == PositionId(CONTRIBUTORS, extended[idx1].contributor_id)
            contributors1 ==
                IF cpos = 0 THEN CONTRIBUTORS
                ELSE [CONTRIBUTORS EXCEPT
                         ![cpos] = RetainCapsuleIds(CONTRIBUTORS[cpos], extended[idx2].id)]
            \* capsules.remove(idx2)
            capsules1 == RemoveAt(extended, idx2)
        IN
        IF idx1 > Len(capsules1) \/ idx2 > Len(capsules1)
        THEN \* capsules[idx1] or capsules[idx2] is out of bounds
             PanicWith(Locks_merge_capsules, contributors1, capsules1, items1, MERGE_RECORDS)
        ELSE
          LET updated_capsule == [id |-> capsules1[idx1].id,
                                  contributor_id |-> capsules1[idx1].contributor_id,
                                  time_created |-> capsules1[idx1].time_created,
                                  time_changed |-> now,
                                  description |-> MergeDescription(capsules1[idx2].id),
                                  name |-> capsules1[idx1].name,
                                  item_ids |-> capsules1[idx1].item_ids]
              merge_record == [old_capsule1 |-> old_capsule1,
                               old_capsule2 |-> old_capsule2,
                               new_merged_capsule |-> updated_capsule]
          IN
          IF "MERGE_RECORDS" \in poisoned
          THEN PanicWith(Locks_merge_capsules, contributors1, capsules1, items1, MERGE_RECORDS)
          ELSE Outcome(Ok, <<updated_capsule>>, contributors1, capsules1, items1,
                       Append(MERGE_RECORDS, merge_record), poisoned))

----------------------------------------------------------------------------
(* The paginated list handlers of capsules.rs, contributors.rs, items.rs.  *)

(* usize minimum                                                           *)
Min(a, b) == IF a <= b THEN a ELSE b

(* vec[start..end].to_vec(): the elements at 0-based positions start up to *)
(* end - 1.                                                                *)
Slice(vec, start, end) == SubSeq(vec, start + 1, end)

(* let start = (page - 1) * per_page; let end = start + per_page;          *)
(* vec[start..end.min(vec.len())].to_vec().  The slice panics when start   *)
(* is past the clamped end; the guard of `lock` is alive then.  `total`    *)
(* is the count the handler reports, None when it reports none.            *)
Page(lock, vec, page, per_page, total) ==
    LET start == (page - 1) * per_page
        end == start + per_page
    IN IF start > Min(end, Len(vec))
       THEN PanicWith(<<lock>>, CONTRIBUTORS, CAPSULES, ITEMS, MERGE_RECORDS)
       ELSE Outcome(Ok, <<[records |-> Slice(vec, start, Min(end, Len(vec))),
                           total |-> total]>>,
                    CONTRIBUTORS, CAPSULES, ITEMS, MERGE_RECORDS, poisoned)

list_capsules(page, per_page) ==
    LockedOrError(Locks_list_capsules,
                  Page("CAPSULES", CAPSULES, page, per_page, Some(Len(CAPSULES))))

list_contributors(page, per_page) ==
    LockedOrError(Locks_list_contributors,
                  Page("CONTRIBUTORS", CONTRIBUTORS, page, per_page, None))

get_all_items(page, per_page) ==
    LockedOrError(Locks_get_all_items,
                  Page("ITEMS", ITEMS, page, per_page, Some(Len(ITEMS))))

----------------------------------------------------------------------------
(* Request inputs.                                                         *)

Pages == 1..MaxPage

PerPages == 0..MaxPerPage

ContributorNames == {"A"}

NewContributors == [name : ContributorNames, email : Emails]

ContributorUpdates == [name : OptionOf(ContributorNames), email : OptionOf(Emails)]

NewCapsules ==
    [name : Names, description : Descriptions, contributor_id : ContributorIds,
     time_open : OpenTimes]

CapsulePatches ==
    [name : OptionOf(NewNames), description : OptionOf(Descriptions), version : OptionOf(Versions)]

NewItems ==
    [type_c : {"photo"}, description : Descriptions, size : {"1MB"}, path : {"/p"},
     metadata : {"{}"}]

NewItemUpdates == [description : {"d2"}, version : OptionOf(Versions)]

(* Bodies of PUT /capsules/<cid>: the stored capsule as a client read it,  *)
(* sent back with one field set to a value of the client's choice.         *)
CapsuleBodies(cid) ==
    LET pos == PositionId(CAPSULES, cid) IN
    IF pos = 0
    THEN {[id |-> cid, contributor_id |-> 1, name |-> "n1", description |-> "d1",
           time_created |-> now, time_changed |-> None, time_open |-> MaxTime + 1,
           time_until_changed |-> now + Week, item_ids |-> None, version |-> 1]}
    ELSE LET c == CAPSULES[pos] IN
            {[c EXCEPT !.id = i] : i \in CapsuleIds}
         \cup {[c EXCEPT !.contributor_id = k] : k \in ContributorIds}
         \cup {[c EXCEPT !.item_ids = ids] : ids \in {None, Some(<<1>>)}}
         \cup {[c EXCEPT !.time_until_changed = c.time_until_changed + Week]}
         \cup {[c EXCEPT !.version = v] : v \in Versions}

----------------------------------------------------------------------------
(* The atomic specification.                                               *)

Idle == [op |-> "idle", held |-> 0, applied |-> 0]

NoOp == [op |-> "init", args |-> [id |-> 0], res |-> Ok, ret |-> <<>>]

Init ==
    /\ CONTRIBUTORS = <<>>
    /\ CAPSULES = <<>>
    /\ ITEMS = <<>>
    /\ MERGE_RECORDS = <<>>
    /\ poisoned = {}
    /\ now = 0
    /\ last = NoOp
    /\ steps = 0
    /\ pc = [p \in Callers |-> Idle]

(* Responses of a request that was carried out or that panicked; any other *)
(* response is a rejection.                                                *)
Carried == {Ok, NoContent, Panic}

(* A request served: the collections become the handler's outcome.  `last` *)
(* keeps the most recent request that was carried out or panicked, with    *)
(* its arguments and the value it returned; a rejected request leaves no   *)
(* trace.                                                                  *)
Serve(op, args, out) ==
    LET o == out IN
    /\ steps < MaxSteps
    /\ CONTRIBUTORS' = o.contributors
    /\ CAPSULES' = o.capsules
    /\ ITEMS' = o.items
    /\ MERGE_RECORDS' = o.merge_records
    /\ poisoned' = o.poisoned
    /\ last' = IF o.res \in Carried
               THEN [op |-> op, args |-> args, res |-> o.res, ret |-> o.ret]
               ELSE last
    /\ steps' = IF o.res \in Carried THEN steps + 1 ELSE steps
    /\ UNCHANGED <<now, pc>>

CreateContributor(new) ==
    /\ Len(CONTRIBUTORS) < MaxContributors
    /\ Serve("create_contributor", new, create_contributor(new))

UpdateContributor(id, upd) ==
    Serve("update_contributor", [id |-> id], update_contributor(id, upd))

DeleteContributor(id) ==
    Serve("delete_contributor", [id |-> id], delete_contributor(id))

CreateCapsule(new) ==
    /\ NextId(CAPSULES) <= MaxCapsuleId
    /\ Serve("create_capsule", new, create_and_update_capsule(new))

UpdateCapsule(cid, body) ==
    Serve("update_capsule", [cid |-> cid, body |-> body], update_capsule(cid, body))

PatchCapsule(cid, etag, patch) ==
    /\ \A i \in 1..Len(CAPSULES) : CAPSULES[i].id = cid => CAPSULES[i].version < MaxVersion
    /\ Serve("patch_capsule", [cid |-> cid], patch_capsule(cid, etag, patch))

DeleteCapsule(cid) ==
    Serve("delete_capsule", [cid |-> cid], delete_capsule(cid))

AddItemToCapsule(cid, item_data) ==
    /\ NextId(ITEMS) <= MaxItemId
    /\ Serve("add_item_to_capsule", [cid |-> cid, item |-> item_data],
             add_item_to_capsule(cid, item_data))

PatchItem(capsule_id, item_id, etag, item_update) ==
    /\ \A i \in 1..Len(ITEMS) : ITEMS[i].id = item_id => ITEMS[i].version < MaxVersion
    /\ Serve("patch_item", [capsule_id |-> capsule_id, item_id |-> item_id],
             patch_capsule_item_description(capsule_id, item_id, etag, item_update))

DeleteItem(capsule_id, item_id) ==
    Serve("delete_item", [capsule_id |-> capsule_id, item_id |-> item_id],
          delete_capsule_item(capsule_id, item_id))

MergeCapsules(capsule_id1, capsule_id2) ==
    /\ Len(MERGE_RECORDS) < MaxMerges
    /\ Serve("merge_capsules", [capsule_id1 |-> capsule_id1, capsule_id2 |-> capsule_id2],
             merge_capsules(capsule_id1, capsule_id2))

(* Utc::now() advances between requests.                                   *)
(* A read request served.  One that is answered, with a page or with an    *)
(* error, changes nothing and leaves no trace; one that panics poisons the *)
(* mutex it holds and is kept in `last`.                                   *)
Read(op, args, out) ==
    LET o == out IN
    /\ steps < MaxSteps
    /\ poisoned' = o.poisoned
    /\ last' = IF o.res = Panic
               THEN [op |-> op, args |-> args, res |-> o.res, ret |-> o.ret]
               ELSE last
    /\ steps' = IF o.res = Panic THEN steps + 1 ELSE steps
    /\ UNCHANGED <<data, now, pc>>

ListCapsules(page, per_page) ==
    Read("list_capsules", [page |-> page, per_page |-> per_page],
         list_capsules(page, per_page))

ListContributors(page, per_page) ==
    Read("list_contributors", [page |-> page, per_page |-> per_page],
         list_contributors(page, per_page))

GetAllItems(page, per_page) ==
    Read("get_all_items", [page |-> page, per_page |-> per_page],
         get_all_items(page, per_page))

Tick ==
    /\ now < MaxTime
    /\ steps < MaxSteps
    /\ now' = now + 1
    /\ steps' = steps + 1
    /\ UNCHANGED <<data, poisoned, last, pc>>

Next ==
    \/ \E new \in NewContributors : CreateContributor(new)
    \/ \E id \in ContributorIds, upd \in ContributorUpdates : UpdateContributor(id, upd)
    \/ \E id \in ContributorIds : DeleteContributor(id)
    \/ \E new \in NewCapsules : CreateCapsule(new)
    \/ \E cid \in CapsuleIds : \E body \in CapsuleBodies(cid) : UpdateCapsule(cid, body)
    \/ \E cid \in CapsuleIds, etag \in OptionOf(Versions), patch \in CapsulePatches :
           PatchCapsule(cid, etag, patch)
    \/ \E cid \in CapsuleIds : DeleteCapsule(cid)
    \/ \E cid \in CapsuleIds, item_data \in NewItems : AddItemToCapsule(cid, item_data)
    \/ \E cid \in CapsuleIds, item_id \in ItemIds, etag \in OptionOf(Versions),
          upd \in NewItemUpdates : PatchItem(cid, item_id, etag, upd)
    \/ \E cid \in CapsuleIds, item_id \in ItemIds : DeleteItem(cid, item_id)
    \/ \E id1 \in CapsuleIds, id2 \in CapsuleIds : MergeCapsules(id1, id2)
    \/ Tick

Spec == Init /\ [][Next]_vars

(* The requests of Next together with the paginated list requests.         *)
ReadNext ==
    \/ Next
    \/ \E page \in Pages, per_page \in PerPages : ListCapsules(page, per_page)
    \/ \E page \in Pages, per_page \in PerPages : ListContributors(page, per_page)
    \/ \E page \in Pages, per_page \in PerPages : GetAllItems(page, per_page)

ReadSpec == Init /\ [][ReadNext]_vars

----------------------------------------------------------------------------
(* The lock protocol.  A caller runs one handler at a time: it takes the   *)
(* handler's mutexes one lock() call at a time, in the handler's order,    *)
(* blocks while the next one is held by another caller, and drops all its  *)
(* guards when the handler returns.  pc[p].held counts its guards and      *)
(* pc[p].applied the writes to the collections it has made so far.         *)

(* Every lock() call of a handler, in order; merge_capsules locks the      *)
(* merge log last, while it still holds its three collection guards.       *)
LockOrder(op) ==
    CASE op = "create_contributor" -> Locks_create_contributor
      [] op = "update_contributor" -> Locks_update_contributor
      [] op = "delete_contributor" -> Locks_delete_contributor
      [] op = "list_contributors" -> Locks_list_contributors
      [] op = "get_contributor_with_capsules" -> Locks_get_contributor_with_capsules
      [] op = "create_capsule" -> Locks_create_and_update_capsule
      [] op = "update_capsule" -> Locks_update_capsule
      [] op = "patch_capsule" -> Locks_patch_capsule
      [] op = "delete_capsule" -> Locks_delete_capsule
      [] op = "list_capsules" -> Locks_list_capsules
      [] op = "capsule_detail" -> Locks_capsule_detail
      [] op = "add_item_to_capsule" -> Locks_add_item_to_capsule
      [] op = "patch_item" -> Locks_patch_capsule_item_description
      [] op = "delete_item" -> Locks_delete_capsule_item
      [] op = "get_all_items" -> Locks_get_all_items
      [] op = "get_item" -> Locks_get_item
      [] op = "get_capsule_items" -> Locks_get_capsule_items
      [] op = "get_capsule_item" -> Locks_get_capsule_item
      [] op = "merge_capsules" -> Locks_merge_capsules \o <<"MERGE_RECORDS">>
      [] op = "get_merge_records" -> Locks_get_merge_records
      [] OTHER -> <<>>

Handlers ==
    {"create_contributor", "update_contributor", "delete_contributor", "list_contributors",
     "get_contributor_with_capsules", "create_capsule", "update_capsule", "patch_capsule",
     "delete_capsule", "list_capsules", "capsule_detail", "add_item_to_capsule",
     "patch_item", "delete_item", "get_all_items", "get_item", "get_capsule_items",
     "get_capsule_item", "merge_capsules", "get_merge_records"}

(* The mutexes caller p holds.                                             *)
Held(p) == {LockOrder(pc[p].op)[i] : i \in 1..pc[p].held}

(* The mutex caller p asks for next; "" when it has them all.              *)
Wanted(p) ==
    IF pc[p].held < Len(LockOrder(pc[p].op))
    THEN LockOrder(pc[p].op)[pc[p].held + 1] ELSE ""

(* A lock() that would never wait.                                         *)
Blocked_Never(p) == FALSE

(* Caller p is blocked in lock(): another caller holds the mutex.          *)
Blocked(p) == \E q \in Callers \ {p} : Wanted(p) \in Held(q)

(* The collections a cascading handler writes, one entry per statement    *)
(* that changes a collection, in the order of the statements.              *)
Writes(op) ==
    CASE op = "delete_capsule" -> <<"CAPSULES", "ITEMS", "CONTRIBUTORS">>
      [] op = "delete_contributor" -> <<"CONTRIBUTORS", "CAPSULES", "ITEMS">>
      [] op = "merge_capsules" ->
             <<"CAPSULES", "ITEMS", "CAPSULES", "CONTRIBUTORS", "CAPSULES">>
      [] OTHER -> <<>>

(* The handlers that only read the collections.                            *)
Reads ==
    {"list_contributors", "get_contributor_with_capsules", "list_capsules",
     "capsule_detail", "get_all_items", "get_item", "get_capsule_items",
     "get_capsule_item"}

(* The collections caller p has written and those it has yet to write.     *)
Written(p) == {Writes(pc[p].op)[i] : i \in 1..pc[p].applied}

Unwritten(p) ==
    {Writes(pc[p].op)[i] : i \in (pc[p].applied + 1)..Len(Writes(pc[p].op))}

(* A handler that would touch the collections from its first guard on.    *)
Entered_AtFirstGuard(p) == pc[p].held >= 1

(* A handler touches the collections once it holds the guards it takes at  *)
(* its top: all of them, but for the merge log of merge_capsules.          *)
Entered(p) ==
    pc[p].held >=
        IF pc[p].op = "merge_capsules" THEN Len(Locks_merge_capsules)
        ELSE Len(LockOrder(pc[p].op))

Begin(p, op) ==
    /\ pc[p] = Idle
    /\ pc' = [pc EXCEPT ![p] = [op |-> op, held |-> 0, applied |-> 0]]
    /\ UNCHANGED <<data, poisoned, now, last, steps>>

(* lock() returns the guard of a mutex that is free and not poisoned.      *)
Acquire(p) ==
    /\ Wanted(p) # ""
    /\ ~ Blocked(p)
    /\ Wanted(p) \notin poisoned
    /\ (Wanted(p) = "MERGE_RECORDS" => pc[p].applied = Len(Writes(pc[p].op)))
    /\ pc' = [pc EXCEPT ![p].held = pc[p].held + 1]
    /\ UNCHANGED <<data, poisoned, now, last, steps>>

(* lock() on a poisoned mutex returns Err: the handler panics in unwrap(), *)
(* poisoning the mutexes whose guards it holds, or answers 500.            *)
LockFails(p) ==
    /\ Wanted(p) \in poisoned
    /\ ~ Blocked(p)
    /\ pc' = [pc EXCEPT ![p] = Idle]
    /\ poisoned' = poisoned \cup Held(p)
    /\ UNCHANGED <<data, now, last, steps>>

(* A cascading handler executes its next statement that changes a          *)
(* collection, under the guards it took at its top.                        *)
Write(p) ==
    /\ Entered(p)
    /\ pc[p].applied < Len(Writes(pc[p].op))
    /\ pc' = [pc EXCEPT ![p].applied = pc[p].applied + 1]
    /\ UNCHANGED <<data, poisoned, now, last, steps>>

(* merge_capsules panics, before its first write (an unset time_changed)   *)
(* or after its last one (the index past the removal): its three guards    *)
(* are dropped during the unwinding and their mutexes poisoned.            *)
Crash(p) ==
    /\ pc[p].op = "merge_capsules"
    /\ pc[p].held = Len(Locks_merge_capsules)
    /\ pc[p].applied \in {0, Len(Writes(pc[p].op))}
    /\ pc' = [pc EXCEPT ![p] = Idle]
    /\ poisoned' = poisoned \cup Held(p)
    /\ UNCHANGED <<data, now, last, steps>>

(* The handler returns, rejecting the request before its first write or   *)
(* at its end: its guards go out of scope.                                 *)
Return(p) ==
    /\ pc[p] # Idle
    /\ Entered(p)
    /\ \/ pc[p].applied = 0 /\ Writes(pc[p].op) # <<>>
       \/ pc[p].applied = Len(Writes(pc[p].op)) /\ Wanted(p) = ""
    /\ pc' = [pc EXCEPT ![p] = Idle]
    /\ UNCHANGED <<data, poisoned, now, last, steps>>

LockNext ==
    \/ \E p \in Callers, op \in Handlers : Begin(p, op)
    \/ \E p \in Callers : Acquire(p)
    \/ \E p \in Callers : LockFails(p)
    \/ \E p \in Callers : Write(p)
    \/ \E p \in Callers : Crash(p)
    \/ \E p \in Callers : Return(p)

LockSpec == Init /\ [][LockNext]_vars

----------------------------------------------------------------------------
(* patch_capsule statement by statement, for callers racing on a capsule:  *)
(* lock CAPSULES, evaluate the preconditions on the stored capsule, write  *)
(* the patched capsule, return and drop the guard.  pc[p] keeps the        *)
(* request, the capsule's stored version when it was issued,               *)
(* whether the preconditions passed and the response.                      *)

Pending == [status |-> "Pending", msg |-> ""]

(* The racing requests: a patch of the description with the expected       *)
(* version in the etag.                                                    *)
RacingPatches ==
    {patch \in CapsulePatches :
        ~ IsSome(patch.name) /\ IsSome(patch.description) /\ ~ IsSome(patch.version)}

Patching(p) == pc[p].op = "patch_capsule"

(* Callers are interchangeable: they issue their requests in the order of  *)
(* their numbers.  A request for an id that no capsule has is answered     *)
(* NotFound whatever the others do, and is left out.                       *)
PatchBegin(p, cid, etag, patch) ==
    /\ pc[p] = Idle
    /\ \A q \in 1..(p - 1) : pc[q] # Idle
    /\ PositionId(CAPSULES, cid) # 0
    /\ pc' = [pc EXCEPT ![p] = [op |-> "patch_capsule", held |-> 0, applied |-> 0,
                                cid |-> cid, etag |-> etag, patch |-> patch,
                                seen |-> CAPSULES[PositionId(CAPSULES, cid)].version,
                                checked |-> FALSE, res |-> Pending]]
    /\ UNCHANGED <<data, poisoned, now, last, steps>>

(* The early returns of patch_capsule, evaluated under the guard.          *)
PatchCheck(p) ==
    /\ Patching(p) /\ Entered(p)
    /\ ~ pc[p].checked
    /\ LET o == patch_capsule(pc[p].cid, pc[p].etag, pc[p].patch) IN
       pc' = [pc EXCEPT ![p].checked = TRUE,
                        ![p].res = IF o.res = Ok THEN Pending ELSE o.res]
    /\ UNCHANGED <<data, poisoned, now, last, steps>>

(* The assignments of patch_capsule to the stored capsule.                 *)
PatchWrite(p) ==
    /\ Patching(p) /\ Entered(p)
    /\ pc[p].checked /\ pc[p].res = Pending
    /\ LET pos == PositionId(CAPSULES, pc[p].cid) IN
       CAPSULES' = [CAPSULES EXCEPT ![pos] = PatchedCapsule(CAPSULES[pos], pc[p].patch, now)]
    /\ pc' = [pc EXCEPT ![p].res = Ok]
    /\ UNCHANGED <<CONTRIBUTORS, ITEMS, MERGE_RECORDS, poisoned, now, last, steps>>

(* The response is sent and the guard dropped.                             *)
PatchReturn(p) ==
    /\ Patching(p) /\ Entered(p)
    /\ pc[p].res # Pending
    /\ pc' = [pc EXCEPT ![p].held = 0]
    /\ UNCHANGED <<data, poisoned, now, last, steps>>

(* The store is filled while no request is in flight; then the callers     *)
(* race, each with one request, and the clock runs on.                     *)
PatchNext ==
    \/ /\ \A p \in Callers : pc[p] = Idle
       /\ \/ \E new \in NewContributors : CreateContributor(new)
          \/ \E new \in NewCapsules : CreateCapsule(new)
    \/ Tick
    \/ \E p \in Callers, cid \in CapsuleIds, etag \in OptionOf(Versions),
          patch \in RacingPatches : PatchBegin(p, cid, etag, patch)
    \/ \E p \in Callers : Patching(p) /\ Acquire(p)
    \/ \E p \in Callers : PatchCheck(p)
    \/ \E p \in Callers : PatchWrite(p)
    \/ \E p \in Callers : PatchReturn(p)

PatchSpec == Init /\ [][PatchNext]_vars

----------------------------------------------------------------------------
(* Vocabulary of the properties.                                           *)

(* The ids an Option<Vec<u32>> lists, as a sequence.                       *)
IdsOf(o) == IF IsSome(o) THEN Unwrap(o) ELSE <<>>

(* The step is a request that was carried out or panicked, of handler op;  *)
(* last' is its record, the unprimed variables the state it was served in. *)
Request(op) == steps' = steps + 1 /\ now' = now /\ last'.op = op

(* Live records with a given id.                                           *)
CapsulesWithId(caps, id) == {i \in 1..Len(caps) : caps[i].id = id}

ItemsWithId(itms, id) == {i \in 1..Len(itms) : itms[i].id = id}

ContributorsWithId(ctrs, id) == {i \in 1..Len(ctrs) : ctrs[i].id = id}

(* now is not past the capsule's time_until_changed.                       *)
WithinWindow(capsule) == now <= capsule.time_until_changed

----------------------------------------------------------------------------
(* C1: the system never deadlocks: no reachable state has two or more      *)
(* callers each holding a collection lock while waiting for a lock held by *)
(* another of them.                                                        *)

Deadlocked(S) ==
    /\ Cardinality(S) >= 2
    /\ \A p \in S : Held(p) # {} /\ \E q \in S \ {p} : Wanted(p) \in Held(q)

C1_NoDeadlock == ~ \E S \in SUBSET Callers : Deadlocked(S)

----------------------------------------------------------------------------
(* C2: invariant I1 holds after every completed operation: every id in a   *)
(* capsule's item_ids names exactly one live item whose id_capsule is that *)
(* capsule's id, and every live item is listed in the item_ids of the live *)
(* capsule it references.  Stated for the states no panic has touched.     *)

I1 ==
    /\ \A c \in 1..Len(CAPSULES) : \A k \in 1..Len(IdsOf(CAPSULES[c].item_ids)) :
           LET id == IdsOf(CAPSULES[c].item_ids)[k] IN
           /\ Cardinality(ItemsWithId(ITEMS, id)) = 1
           /\ \A i \in ItemsWithId(ITEMS, id) : ITEMS[i].id_capsule = CAPSULES[c].id
    /\ \A i \in 1..Len(ITEMS) :
           /\ Cardinality(CapsulesWithId(CAPSULES, ITEMS[i].id_capsule)) = 1
           /\ \A c \in CapsulesWithId(CAPSULES, ITEMS[i].id_capsule) :
                  Contains(IdsOf(CAPSULES[c].item_ids), ITEMS[i].id)

C2_I1 == poisoned = {} => I1

----------------------------------------------------------------------------
(* C3: invariant I2 holds after every completed operation: every id in a   *)
(* contributor's capsule_ids names exactly one live capsule whose          *)
(* contributor_id is that contributor's id, and every live capsule is      *)
(* listed in the capsule_ids of the live contributor it references.        *)
(* Stated for the states no panic has touched.                             *)

I2 ==
    /\ \A c \in 1..Len(CONTRIBUTORS) : \A k \in 1..Len(IdsOf(CONTRIBUTORS[c].capsule_ids)) :
           LET id == IdsOf(CONTRIBUTORS[c].capsule_ids)[k] IN
           /\ Cardinality(CapsulesWithId(CAPSULES, id)) = 1
           /\ \A i \in CapsulesWithId(CAPSULES, id) :
                  CAPSULES[i].contributor_id = CONTRIBUTORS[c].id
    /\ \A i \in 1..Len(CAPSULES) :
           \E c \in ContributorsWithId(CONTRIBUTORS, CAPSULES[i].contributor_id) :
               Contains(IdsOf(CONTRIBUTORS[c].capsule_ids), CAPSULES[i].id)

C3_I2 == poisoned = {} => I2

----------------------------------------------------------------------------
(* C4: of two creation requests (CreateCapsule or AddItemToCapsule) with   *)
(* identical significant fields, the second is rejected: it creates no     *)
(* entity, allocates no id and adds no cross-reference.                    *)

C4_DuplicateRejected ==
    [][/\ \A new \in NewCapsules :
              (/\ last.op = "create_capsule" /\ last.res = Ok /\ last.args = new
               /\ CreateCapsule(new))
              => (/\ create_and_update_capsule(new).res = DuplicateSubmission
                  /\ CAPSULES' = CAPSULES /\ CONTRIBUTORS' = CONTRIBUTORS)
       /\ \A cid \in CapsuleIds, item_data \in NewItems :
              (/\ last.op = "add_item_to_capsule" /\ last.res = Ok
               /\ last.args = [cid |-> cid, item |-> item_data]
               /\ AddItemToCapsule(cid, item_data))
              => (/\ add_item_to_capsule(cid, item_data).res = DuplicateSubmission
                  /\ ITEMS' = ITEMS /\ CAPSULES' = CAPSULES)]_vars

----------------------------------------------------------------------------
(* C5: every successful PatchCapsule leaves the capsule's version equal to *)
(* its version before the call plus exactly 1 and sets time_changed to a   *)
(* time not earlier than the start of the operation.                       *)

C5_PatchBumpsVersion ==
    [][(Request("patch_capsule") /\ last'.res = Ok)
       => LET pos == PositionId(CAPSULES, last'.args.cid) IN
          /\ pos # 0
          /\ CAPSULES'[pos].id = last'.args.cid
          /\ CAPSULES'[pos].version = CAPSULES[pos].version + 1
          /\ IsSome(CAPSULES'[pos].time_changed)
          /\ Unwrap(CAPSULES'[pos].time_changed) >= now]_vars

(* A patch has succeeded on a capsule created before the current instant.  *)
C5_Witness ==
    /\ last.op = "patch_capsule" /\ last.res = Ok
    /\ \E i \in 1..Len(CAPSULES) :
           /\ CAPSULES[i].id = last.args.cid
           /\ CAPSULES[i].version = 2
           /\ CAPSULES[i].time_created < Unwrap(CAPSULES[i].time_changed)

----------------------------------------------------------------------------
(* C6: PatchCapsule on a live capsule within its window decides the        *)
(* version precondition in this order: etag and body version both present  *)
(* and unequal fails with VersionConflictRequest; otherwise expected is    *)
(* the etag, else the body version; expected absent fails with             *)
(* VersionRequired; expected different from the stored version fails with  *)
(* StaleVersion; in all three failures nothing is changed.  Stated for the *)
(* requests the handler gets to decide, those that find the CAPSULES mutex *)
(* usable.                                                                 *)

----------------------------------------------------------------------------
(* C7: after every completed DeleteCapsule(cid) the capsule is gone, no    *)
(* item whose capsule reference equals cid remains in the item collection, *)
(* and cid is absent from the capsule_ids of its former contributor.       *)

C7_DeleteCapsuleCascade ==
    [][(Request("delete_capsule") /\ last'.res = NoContent)
       => LET cid == last'.args.cid
              owner == CAPSULES[PositionId(CAPSULES, cid)].contributor_id
          IN /\ CapsulesWithId(CAPSULES', cid) = {}
             /\ \A i \in 1..Len(ITEMS') : ITEMS'[i].id_capsule # cid
             /\ \A c \in ContributorsWithId(CONTRIBUTORS', owner) :
                    ~ Contains(IdsOf(CONTRIBUTORS'[c].capsule_ids), cid)]_vars

----------------------------------------------------------------------------
(* C8: after every completed DeleteContributor(id) the contributor is      *)
(* gone, no capsule whose contributor_id equals id remains, no item        *)
(* belonging to any of the removed capsules remains, and the capsules and  *)
(* items of every other live contributor are untouched.                    *)

C8_DeleteContributorCascade ==
    [][(Request("delete_contributor") /\ last'.res = NoContent)
       => LET id == last'.args.id
              removed == {CAPSULES[i].id : i \in {j \in 1..Len(CAPSULES) :
                                                     CAPSULES[j].contributor_id = id}}
          IN /\ ContributorsWithId(CONTRIBUTORS', id) = {}
             /\ \A i \in 1..Len(CAPSULES') : CAPSULES'[i].contributor_id # id
             /\ \A i \in 1..Len(ITEMS') : ITEMS'[i].id_capsule \notin removed
             /\ \A i \in 1..Len(CAPSULES) :
                    CAPSULES[i].contributor_id # id => Contains(CAPSULES', CAPSULES[i])
             /\ \A i \in 1..Len(ITEMS) :
                    ITEMS[i].id_capsule \notin removed => Contains(ITEMS', ITEMS[i])]_vars

----------------------------------------------------------------------------
(* C9: every merge of two live capsules of the same contributor within     *)
(* their windows completes, and after it every item that belonged to       *)
(* capsule 2 has its capsule reference equal to capsule 1's id, capsule    *)
(* 2's id is absent from the capsule collection and from the contributor's *)
(* capsule_ids, and exactly one MergeRecord has been appended to the merge *)
(* log.  Stated for two distinct capsules and a store no panic has touched.*)

Mergeable(id1, id2) ==
    /\ poisoned = {} /\ id1 # id2
    /\ CapsulesWithId(CAPSULES, id1) # {} /\ CapsulesWithId(CAPSULES, id2) # {}
    /\ \A i \in CapsulesWithId(CAPSULES, id1) \cup CapsulesWithId(CAPSULES, id2) :
           /\ WithinWindow(CAPSULES[i])
           /\ CAPSULES[i].contributor_id = CAPSULES[PositionId(CAPSULES, id1)].contributor_id

C9_MergeCompletes ==
    \A id1 \in CapsuleIds, id2 \in CapsuleIds :
        Mergeable(id1, id2)
        => LET o == merge_capsules(id1, id2)
               owner == CAPSULES[PositionId(CAPSULES, id1)].contributor_id
           IN /\ o.res = Ok
              /\ \A i \in 1..Len(ITEMS) :
                     ITEMS[i].id_capsule = id2 => o.items[i].id_capsule = id1
              /\ CapsulesWithId(o.capsules, id2) = {}
              /\ \A c \in ContributorsWithId(o.contributors, owner) :
                     ~ Contains(IdsOf(o.contributors[c].capsule_ids), id2)
              /\ Len(o.merge_records) = Len(MERGE_RECORDS) + 1

----------------------------------------------------------------------------
(* C10: for every successful Merge(capsule_id_1, capsule_id_2), whatever   *)
(* the positions of the two capsules in the store, the returned merged     *)
(* capsule and the merged snapshot in the MergeRecord have id capsule_id_1 *)
(* and item_ids equal to the union of the two capsules' pre-merge          *)
(* item_ids, and the stored capsule with id capsule_id_1 holds that same   *)
(* union.  Stated for two distinct capsules.                               *)

C10_MergeSurvivor ==
    [][(/\ Request("merge_capsules") /\ last'.res = Ok
        /\ last'.args.capsule_id1 # last'.args.capsule_id2)
       => LET id1 == last'.args.capsule_id1
              id2 == last'.args.capsule_id2
              union == Range(IdsOf(CAPSULES[PositionId(CAPSULES, id1)].item_ids))
                           \cup Range(IdsOf(CAPSULES[PositionId(CAPSULES, id2)].item_ids))
              returned == last'.ret[1]
              recorded == MERGE_RECORDS'[Len(MERGE_RECORDS')].new_merged_capsule
          IN /\ returned.id = id1
             /\ Range(IdsOf(returned.item_ids)) = union
             /\ recorded.id = id1
             /\ Range(IdsOf(recorded.item_ids)) = union
             /\ CapsulesWithId(CAPSULES', id1) # {}
             /\ \A i \in CapsulesWithId(CAPSULES', id1) :
                    Range(IdsOf(CAPSULES'[i].item_ids)) = union]_vars

----------------------------------------------------------------------------
(* C11: a merge of two live capsules whose contributor_ids differ fails    *)
(* with DifferentOwners and leaves both capsules, all items, all           *)
(* contributors and the merge log unchanged.  Stated for the requests that *)
(* find the three collection mutexes usable.                               *)

----------------------------------------------------------------------------
(* C12: a merge fails with ModificationWindowClosed, changing nothing,     *)
(* whenever the current time is past the time_until_changed of either      *)
(* capsule, and is not rejected on window grounds when both capsules are   *)
(* still within their time_until_changed.  Stated for two distinct capsules *)
(* of one contributor and usable mutexes, so that no earlier check answers.*)

(* The responses that reject a request because the window is closed.       *)
WindowClosedKinds == {ModificationWindowClosed, MergeNotAllowed}

C12_MergeWindow ==
    \A id1 \in CapsuleIds, id2 \in CapsuleIds :
        LET idx1 == PositionId(CAPSULES, id1)
            idx2 == PositionId(CAPSULES, id2)
            o == merge_capsules(id1, id2)
        IN (/\ Range(Locks_merge_capsules) \cap poisoned = {}
            /\ id1 # id2 /\ idx1 # 0 /\ idx2 # 0
            /\ CAPSULES[idx1].contributor_id = CAPSULES[idx2].contributor_id)
           => IF WithinWindow(CAPSULES[idx1]) /\ WithinWindow(CAPSULES[idx2])
              THEN o.res \notin WindowClosedKinds
              ELSE o.res \in WindowClosedKinds /\ o = Fail(o.res)

----------------------------------------------------------------------------
(* C13: invariant I5: once the current time exceeds a capsule's            *)
(* time_until_changed, no operation that changes that capsule or one of    *)
(* its items succeeds (PatchCapsule, full update, AddItemToCapsule,        *)
(* PatchItem, DeleteItem, DeleteCapsule, Merge), and the deadline itself   *)
(* is never moved after creation.                                          *)

(* The step is a request that succeeded.                                   *)
Succeeded == steps' = steps + 1 /\ now' = now /\ last'.res \in {Ok, NoContent}

(* The capsule a request on id cid works on is within its window.          *)
OpenAt(cid) ==
    PositionId(CAPSULES, cid) # 0 /\ WithinWindow(CAPSULES[PositionId(CAPSULES, cid)])

(* A successful change of a capsule or of one of its items is served       *)
(* within the capsule's window.                                            *)
I5_WindowRespected ==
    Succeeded
    => /\ last'.op \in {"patch_capsule", "update_capsule", "add_item_to_capsule",
                        "delete_capsule"} => OpenAt(last'.args.cid)
       /\ last'.op \in {"patch_item", "delete_item"} => OpenAt(last'.args.capsule_id)
       /\ last'.op = "merge_capsules"
              => OpenAt(last'.args.capsule_id1) /\ OpenAt(last'.args.capsule_id2)

(* A successful request that removes no capsule leaves every deadline.     *)
I5_DeadlineFixed ==
    (Succeeded /\ Len(CAPSULES') = Len(CAPSULES))
    => \A i \in 1..Len(CAPSULES) :
           CAPSULES'[i].time_until_changed = CAPSULES[i].time_until_changed

C13_I5 == [][I5_WindowRespected /\ I5_DeadlineFixed]_vars

----------------------------------------------------------------------------
(* C14: invariant I6: after any sequence of CreateContributor, contributor *)
(* update and DeleteContributor operations starting from an empty store,   *)
(* no two live contributors have the same email; a create or update that   *)
(* would duplicate an email fails with EmailInUse and changes nothing.     *)
(* The responses are stated for a usable CONTRIBUTORS mutex.               *)

I6 ==
    \A i \in 1..Len(CONTRIBUTORS), j \in 1..Len(CONTRIBUTORS) :
        i # j => CONTRIBUTORS[i].email # CONTRIBUTORS[j].email

C14_I6 ==
    /\ I6
    /\ "CONTRIBUTORS" \notin poisoned
       => /\ \A new \in NewContributors :
                 (\E i \in 1..Len(CONTRIBUTORS) : CONTRIBUTORS[i].email = new.email)
                 => create_contributor(new) = Fail(EmailInUse)
          /\ \A id \in ContributorIds, upd \in ContributorUpdates :
                 LET pos == PositionId(CONTRIBUTORS, id) IN
                 (/\ pos # 0 /\ IsSome(upd.email)
                  /\ \E i \in 1..Len(CONTRIBUTORS) :
                         i # pos /\ CONTRIBUTORS[i].email = Unwrap(upd.email))
                 => update_contributor(id, upd) = Fail(EmailInUse)

----------------------------------------------------------------------------
(* C15: in each of the three collections, every create allocates an id     *)
(* equal to the maximum id currently present plus 1 (1 if the collection   *)
(* is empty), so that no two live records of the same collection share the *)
(* id a create has just allocated.                                         *)

C15_IdAllocation ==
    [][Succeeded
       => /\ last'.op = "create_contributor"
                => /\ last'.ret[1].id = NextId(CONTRIBUTORS)
                   /\ Cardinality(ContributorsWithId(CONTRIBUTORS', last'.ret[1].id)) = 1
          /\ last'.op = "create_capsule"
                => /\ last'.ret[1].id = NextId(CAPSULES)
                   /\ Cardinality(CapsulesWithId(CAPSULES', last'.ret[1].id)) = 1
          /\ last'.op = "add_item_to_capsule"
                => /\ last'.ret[1].id = NextId(ITEMS)
                   /\ Cardinality(ItemsWithId(ITEMS', last'.ret[1].id)) = 1]_vars

----------------------------------------------------------------------------
(* C16: an id that was allocated in a collection and later removed by a    *)
(* deletion or a merge is never allocated again to a later record of that  *)
(* collection.  Stated for the create that follows the removal directly.   *)

C16_NoIdReuse ==
    [][(Succeeded /\ last.res \in {Ok, NoContent})
       => /\ (last.op = "delete_contributor" /\ last'.op = "create_contributor")
                => last'.ret[1].id # last.args.id
          /\ (last.op = "delete_capsule" /\ last'.op = "create_capsule")
                => last'.ret[1].id # last.args.cid
          /\ (last.op = "merge_capsules" /\ last'.op = "create_capsule")
                => last'.ret[1].id # last.args.capsule_id2
          /\ (last.op = "delete_item" /\ last'.op = "add_item_to_capsule")
                => last'.ret[1].id # last.args.item_id]_vars

----------------------------------------------------------------------------
(* C17: every operation that ends in a failure (any NotFound, Conflict or  *)
(* PreconditionFailed kind, or any other abnormal end) leaves the three    *)
(* collections and the merge log exactly as they were before the call.     *)
(* Merges are taken between two distinct capsules.                         *)

(* The outcome is a success, or it has left the store as it found it.      *)
FailsClean(o) ==
    o.res \notin {Ok, NoContent}
    => /\ o.contributors = CONTRIBUTORS /\ o.capsules = CAPSULES
       /\ o.items = ITEMS /\ o.merge_records = MERGE_RECORDS

C17_FailureLeavesStore ==
    /\ \A new \in NewContributors : FailsClean(create_contributor(new))
    /\ \A id \in ContributorIds, upd \in ContributorUpdates :
           FailsClean(update_contributor(id, upd))
    /\ \A id \in ContributorIds : FailsClean(delete_contributor(id))
    /\ \A new \in NewCapsules : FailsClean(create_and_update_capsule(new))
    /\ \A cid \in CapsuleIds :
           /\ \A body \in CapsuleBodies(cid) : FailsClean(update_capsule(cid, body))
           /\ \A etag \in OptionOf(Versions), patch \in CapsulePatches :
                  FailsClean(patch_capsule(cid, etag, patch))
           /\ FailsClean(delete_capsule(cid))
           /\ \A item_data \in NewItems : FailsClean(add_item_to_capsule(cid, item_data))
           /\ \A item_id \in ItemIds :
                  /\ FailsClean(delete_capsule_item(cid, item_id))
                  /\ \A etag \in OptionOf(Versions), upd \in NewItemUpdates :
                         FailsClean(patch_capsule_item_description(cid, item_id, etag, upd))
           /\ \A id2 \in CapsuleIds \ {cid} : FailsClean(merge_capsules(cid, id2))

----------------------------------------------------------------------------
(* C18: no operation ends abnormally (panics) in any reachable state or    *)
(* for any input: every failure is returned to the caller as an error      *)
(* value, every lock is left usable, and every later operation on the same *)
(* collections is still served.                                            *)

C18_NoPanic == last.res # Panic /\ poisoned = {}

----------------------------------------------------------------------------
(* C19: for every page >= 1 and every per_page, ListCapsules, ListItems    *)
(* and ListContributors return, in insertion order, exactly the records at *)
(* positions [(page-1)*per_page, page*per_page) clamped to the collection  *)
(* length (an empty sequence when the page starts past the end), together  *)
(* with the total count, and change no state.  Stated for a usable mutex.  *)

(* The records of vec at 0-based positions [(page-1)*per_page,             *)
(* page*per_page), clamped to the length of vec.                           *)
PageOf(vec, page, per_page) ==
    LET lo == Min((page - 1) * per_page, Len(vec))
        hi == Min(page * per_page, Len(vec))
    IN [k \in 1..(hi - lo) |-> vec[lo + k]]

(* o answers with that page of vec and its total count, the store and the  *)
(* mutexes as they were.                                                   *)
AnswersPage(o, vec, page, per_page) ==
    /\ o.res = Ok
    /\ o.ret = <<[records |-> PageOf(vec, page, per_page), total |-> Some(Len(vec))]>>
    /\ o.contributors = CONTRIBUTORS /\ o.capsules = CAPSULES /\ o.items = ITEMS
    /\ o.merge_records = MERGE_RECORDS /\ o.poisoned = poisoned

C19_Pagination ==
    \A page \in Pages, per_page \in PerPages :
        /\ "CAPSULES" \notin poisoned
               => AnswersPage(list_capsules(page, per_page), CAPSULES, page, per_page)
        /\ "ITEMS" \notin poisoned
               => AnswersPage(get_all_items(page, per_page), ITEMS, page, per_page)
        /\ "CONTRIBUTORS" \notin poisoned
               => AnswersPage(list_contributors(page, per_page), CONTRIBUTORS, page, per_page)

----------------------------------------------------------------------------
(* C20: CreateCapsule for a contributor_id that names no live contributor  *)
(* fails with ContributorNotFound and changes nothing; for a live          *)
(* contributor it creates a capsule with version 1 and no items and adds   *)
(* the new capsule's id exactly once to the capsule_ids of that            *)
(* contributor and of no other: the contributor lists the id once more     *)
(* than before the call, every other contributor as often as before.  The  *)
(* responses are stated for usable CONTRIBUTORS and CAPSULES mutexes.      *)

(* How many times id occurs in the sequence ids.                           *)
Occurrences(ids, id) == Cardinality({k \in 1..Len(ids) : ids[k] = id})

(* How many times the contributors with id owner, or the others, list id.  *)
Listed(ctrs, owner, id, own) ==
    LET n[i \in 0..Len(ctrs)] ==
            IF i = 0 THEN 0
            ELSE n[i - 1] + IF (ctrs[i].id = owner) = own
                            THEN Occurrences(IdsOf(ctrs[i].capsule_ids), id) ELSE 0
    IN n[Len(ctrs)]

----------------------------------------------------------------------------
(* C21: invariant I4 over histories: across any sequence of operations     *)
(* (including the full update, add/delete item and merge), the version of  *)
(* a live capsule never decreases and changes only by exactly +1 in a      *)
(* successful PatchCapsule.  Stated for the steps that remove no capsule,  *)
(* where a capsule keeps its position in the store.                        *)

C21_I4 ==
    [][Len(CAPSULES') = Len(CAPSULES)
       => \A i \in 1..Len(CAPSULES) :
              \/ CAPSULES'[i].version = CAPSULES[i].version
              \/ /\ Succeeded /\ last'.op = "patch_capsule"
                 /\ i = PositionId(CAPSULES, last'.args.cid)
                 /\ CAPSULES'[i].version = CAPSULES[i].version + 1]_vars

----------------------------------------------------------------------------
(* C22: every operation that locks more than one collection acquires the   *)
(* locks in the order Contributor collection, then Capsule collection,     *)
(* then Item collection, and releases none of them before the operation    *)
(* ends.                                                                   *)

(* The place of a mutex in the global order; the merge log comes last.     *)
Rank(lock) ==
    CASE lock = "CONTRIBUTORS" -> 1
      [] lock = "CAPSULES" -> 2
      [] lock = "ITEMS" -> 3
      [] OTHER -> 4

(* The guards a caller holds were taken in the global order.               *)
C22_LockOrder ==
    \A p \in Callers : \A i \in 1..pc[p].held, j \in 1..pc[p].held :
        i < j => Rank(LockOrder(pc[p].op)[i]) < Rank(LockOrder(pc[p].op)[j])

----------------------------------------------------------------------------
(* C23: no read operation (list, detail, get-contributor-with-capsules,    *)
(* get-capsule-items, get-capsule-item) running concurrently with a        *)
(* delete_capsule, delete_contributor or merge_capsules observes the       *)
(* collections with only some of that operation's writes applied: while a  *)
(* reader is reading, no other caller has written one of the collections   *)
(* the reader touches and still has one of them to write.                  *)
Touches(p) == {LockOrder(pc[p].op)[i] : i \in 1..Len(LockOrder(pc[p].op))}

Reading(p) == pc[p].op \in Reads /\ Entered(p)

MidCascade(q) == 0 < pc[q].applied /\ pc[q].applied < Len(Writes(pc[q].op))

Torn(p, q) ==
    /\ Reading(p)
    /\ Touches(p) \cap Written(q) # {}
    /\ Touches(p) \cap Unwritten(q) # {}

C23_ReadsAtomic == \A p \in Callers : \A q \in Callers \ {p} : ~ Torn(p, q)

(* A read waits for a collection while a cascade is half applied, and a    *)
(* read holds its collections while a cascade waits to start.              *)
C23_Witness ==
    \E p \in Callers : \E q \in Callers \ {p} :
        /\ pc[p].op \in Reads /\ MidCascade(q)
        /\ Touches(p) \cap Written(q) # {} /\ Touches(p) \cap Unwritten(q) # {}
        /\ Blocked(p)

----------------------------------------------------------------------------
(* C24: PATCH of an item applies the version guard of PATCH of a capsule:  *)
(* on an item held by a live capsule within its window, a request whose    *)
(* etag and body version are both present and unequal fails with           *)
(* VersionConflictRequest, also when the etag is the item's stored         *)
(* version, and a request with neither fails with VersionRequired; both    *)
(* leave the store as it was.  Stated for requests that find the mutexes   *)
(* of the handler usable.                                                  *)
C24_ItemVersionGuard ==
    \A cid \in CapsuleIds, iid \in ItemIds,
       etag \in OptionOf(Versions), item_update \in NewItemUpdates :
        LET pos == PositionHolding(cid, iid)
            o == patch_capsule_item_description(cid, iid, etag, item_update)
            ambiguous == IsSome(etag) /\ IsSome(item_update.version)
                         /\ Unwrap(etag) # Unwrap(item_update.version)
            absent == ~ IsSome(etag) /\ ~ IsSome(item_update.version)
        IN (/\ FirstPoisoned(Locks_patch_capsule_item_description) = 0
            /\ pos # 0 /\ WithinWindow(CAPSULES[pos])
            /\ PositionId(ITEMS, iid) # 0)
           => /\ ambiguous => o = Fail(VersionConflictRequest)
              /\ absent => o = Fail(VersionRequired)

----------------------------------------------------------------------------
(* C25: a guarded update changes exactly one record.  A successful PATCH   *)
(* of an item changes only the targeted item: every capsule, every other   *)
(* item, every contributor and the merge log are as before.  A successful  *)
(* PATCH of a capsule changes only the targeted capsule.                   *)
OnlyAt(vec, vec2, pos) ==
    /\ Len(vec2) = Len(vec)
    /\ \A i \in 1..Len(vec) : i # pos => vec2[i] = vec[i]

C25_OneRecord ==
    [][/\ (Succeeded /\ last'.op = "patch_item")
           => /\ OnlyAt(ITEMS, ITEMS', PositionId(ITEMS, last'.args.item_id))
              /\ UNCHANGED <<CAPSULES, CONTRIBUTORS, MERGE_RECORDS>>
       /\ (Succeeded /\ last'.op = "patch_capsule")
           => /\ OnlyAt(CAPSULES, CAPSULES', PositionId(CAPSULES, last'.args.cid))
              /\ UNCHANGED <<ITEMS, CONTRIBUTORS, MERGE_RECORDS>>]_vars

----------------------------------------------------------------------------
(* C26: after a successful merge the capsule stored under capsule 1's id   *)
(* has time_changed set to the time of the merge, and the merged snapshot  *)
(* of the MergeRecord the merge appended agrees with that stored capsule.  *)
(* Stated for merges of two different capsules that return capsule 1.      *)
C26_MergeStamped ==
    [][(/\ Succeeded /\ last'.op = "merge_capsules"
        /\ last'.args.capsule_id1 # last'.args.capsule_id2
        /\ last'.ret[1].id = last'.args.capsule_id1)
       => LET pos == PositionId(CAPSULES', last'.args.capsule_id1) IN
          /\ pos # 0
          /\ CAPSULES'[pos].time_changed = Some(now)
          /\ MERGE_RECORDS' # <<>>
          /\ MERGE_RECORDS'[Len(MERGE_RECORDS')].new_merged_capsule
                 = CapsuleDetails(CAPSULES'[pos])]_vars

----------------------------------------------------------------------------
(* C27: when two callers concurrently issue PATCH on the same capsule with *)
(* the same expected version, at most one of them succeeds, the other      *)
(* fails with StaleVersion, and no update is lost: the capsule's version   *)
(* is its initial version plus the number of patches that succeeded, so    *)
(* exactly one higher for the one success of the pair.  Stated for         *)
(* requests that carry a field to change and are answered within the       *)
(* capsule's window.                                                       *)
Answered(p) == Patching(p) /\ pc[p].res # Pending

SameExpected(p, q) ==
    /\ Patching(p) /\ Patching(q)
    /\ pc[p].cid = pc[q].cid
    /\ IsSome(pc[p].etag) /\ pc[p].etag = pc[q].etag

Successes(cid) == {p \in Callers : Answered(p) /\ pc[p].cid = cid /\ pc[p].res = Ok}

----------------------------------------------------------------------------
(* C28: DELETE of an item on a live capsule within its window.  When the   *)
(* capsule does not list the item, also when no item was ever added to it, *)
(* the request fails with NotFound and changes nothing.  When it lists the *)
(* item, the item's record and its id in the capsule's item_ids are        *)
(* removed and nothing else changes but the capsule's time_changed.        *)
(* Stated for requests that find the mutexes of the handler usable.        *)
C28_DeleteItem ==
    \A cid \in CapsuleIds, iid \in ItemIds :
        LET pos == PositionId(CAPSULES, cid)
            o == delete_capsule_item(cid, iid)
            Other(item) == item.id # iid
        IN (/\ FirstPoisoned(Locks_delete_capsule_item) = 0
            /\ pos # 0 /\ WithinWindow(CAPSULES[pos]))
           => IF ListsItem(CAPSULES[pos], iid)
              THEN /\ o.res = NoContent
                   /\ o.items = SelectSeq(ITEMS, Other)
                   /\ OnlyAt(CAPSULES, o.capsules, pos)
                   /\ [o.capsules[pos] EXCEPT !.item_ids = CAPSULES[pos].item_ids,
                                              !.time_changed = CAPSULES[pos].time_changed]
                          = CAPSULES[pos]
                   /\ ~ ListsItem(o.capsules[pos], iid)
                   /\ o.contributors = CONTRIBUTORS
                   /\ o.merge_records = MERGE_RECORDS
              ELSE o = Fail(ItemNotFound)

----------------------------------------------------------------------------
(* C29: a merge request whose capsule_id1 equals its capsule_id2 never     *)
(* removes that capsule or detaches its items: whatever the response, a    *)
(* capsule that was live is live after the request, its contributor lists  *)
(* it if it did before, and each of its items that its item_ids held once  *)
(* is held once after.                                                     *)
C29_SelfMerge ==
    \A cid \in CapsuleIds :
        LET o == merge_capsules(cid, cid)
            pos == PositionId(CAPSULES, cid)
            after == PositionId(o.capsules, cid)
        IN pos # 0
           => /\ after # 0
              /\ Listed(o.contributors, CAPSULES[pos].contributor_id, cid, TRUE)
                     >= Listed(CONTRIBUTORS, CAPSULES[pos].contributor_id, cid, TRUE)
              /\ \A k \in 1..Len(ITEMS) :
                     (/\ ITEMS[k].id_capsule = cid
                      /\ Occurrences(IdsOf(CAPSULES[pos].item_ids), ITEMS[k].id) = 1)
                     => /\ k <= Len(o.items) /\ o.items[k] = ITEMS[k]
                        /\ Occurrences(IdsOf(o.capsules[after].item_ids), ITEMS[k].id) = 1

=============================================================================
